---- MODULE Spec2Model ----
(***************************************************************************)
(* The editor shell of pIDEstyx (ide-core/ui/src/App.tsx, and the simpler  *)
(* variant of the same component without explorer and sidebar) as a state  *)
(* machine: React state, refs, the window listeners and the observer that  *)
(* the effects install, the host requests in flight, and the events that   *)
(* drive them.                                                             *)
(*                                                                         *)
(* React semantics used: a state update re-renders before the next event   *)
(* is handled; the passive effects of a commit run later, as a step of     *)
(* their own (FlushEffects), but never later than the start of the next    *)
(* render, which flushes them first. A handler that an effect installed    *)
(* reads the state of the render that installed it.                        *)
(*                                                                         *)
(* Spec is the whole shell. SpecPanel and SpecHost are its two sides, the   *)
(* panel geometry and the host-backed state; the sides meet only in the    *)
(* re-render, which acts on the other side exactly as FlushEffects does.   *)
(* SpecDrag interleaves the two sides where they meet: the panel's events  *)
(* with saves and with the host's answers to every kind of request.        *)
(***************************************************************************)
EXTENDS Integers, Sequences, FiniteSets, Bags, TLC

\* ----------------------------------------------------------------- bounds
\* Host requests that may be outstanding at once.
MaxPending == 3

\* --------------------------------------------------------- program values
Placeholder == "// Welcome to pIDEstyx IDE!\n"
InitialRoot == "/path/to/project"
InitialWidth == 250
MinWidth == 150
HandleWidth == 5

\* ----------------------------------------------------------------- inputs
\* A path is the sequence of its characters.
PathA == <<"/", "p", "/", "a">>
PathB == <<"/", "p", "/", "s", "/", "b">>
PathC == <<"c">>
PathD == <<"/", "p", "/">>
Listings == {<<>>, <<PathA, PathB>>, <<PathC, PathD>>}
Roots == {InitialRoot, "/proj"}
\* The value of a widget change event: a text, or undefined.
Undefined == "<undefined>"
ChangeValues == {Undefined, "", "fn a"}
\* What the host may hold at start: nothing, or a saved buffer.
NoBuffer == "<no buffer>"
HostBuffers == {NoBuffer, "fn h"}
\* clientX of a pointer-move.
Xs == {-20, 0, 80, 300}
WindowWidths == {1000, 1200}

VARIABLES
    variant,            \* "rich": ide-core/ui/src/App.tsx; "simple": the variant without sidebar
    mounted,            \* the component is mounted
    code,               \* useState: the buffer text
    projectRoot,        \* useState
    fileList,           \* useState
    isResizing,         \* useState
    editorRef,          \* useRef: "null" or "editor"
    sidebarWidth,       \* sidebarRef.current.style.width, in px
    listeners,          \* the window's (mousemove, mouseup) pairs of the shell, each
                        \* the isResizing its closures captured
    effectDeps,         \* <<projectRoot, isResizing>> of the render whose effects ran
                        \* last; <<>> before the first run
    observerInstalled,  \* the ResizeObserver observes the editor container
    observedWidth,      \* <<w>>: the container width the observer last reported;
                        \* <<>>: none yet
    windowWidth,        \* the window's inner width
    pending,            \* bag of host requests in flight
    hostBuffer,         \* the host's persisted buffer
    dragging,           \* the pointer went down on the handle and has not come up
    measured,           \* <<window width, sidebar width>> at the widget's last
                        \* layout; <<>>: no layout yet
    issued,             \* bag of the host requests the last step issued
    out                 \* what the last step did: layout calls, console, errors

vars == <<variant, mounted, code, projectRoot, fileList, isResizing, editorRef,
          sidebarWidth, listeners, effectDeps, observerInstalled,
          observedWidth, windowWidth, pending, hostBuffer, dragging,
          measured, issued, out>>

\* ---------------------------------------------------------------- helpers
Max(a, b) == IF a >= b THEN a ELSE b

\* unhandled names the handler whose rejected promise nothing caught.
Quiet == [layouts |-> 0, log |-> "", unhandled |-> "", thrown |-> FALSE]

\* The editor container fills what the sidebar and the handle leave.
ContainerWidth(w, side) == w - side - HandleWidth

Request(cmd, arg, k) == [cmd |-> cmd, arg |-> arg, k |-> k]

Issue(bag, req) == bag (+) SetToBag({req})

Settle(bag, req) == bag (-) SetToBag({req})

Outstanding == BagToSet(pending)

\* ------------------------------------------------------------------- init
Init ==
    /\ variant \in {"rich", "simple"}
    /\ mounted = TRUE
    /\ code = Placeholder
    /\ projectRoot = InitialRoot
    /\ fileList = <<>>
    /\ isResizing = FALSE
    /\ editorRef = "null"
    /\ sidebarWidth = InitialWidth
    /\ listeners = <<>>
    /\ effectDeps = <<>>
    /\ observerInstalled = FALSE
    /\ observedWidth = <<>>
    /\ windowWidth = 1000
    /\ pending = EmptyBag
    /\ hostBuffer \in HostBuffers
    /\ dragging = FALSE
    /\ measured = <<>>
    /\ issued = EmptyBag
    /\ out = Quiet

\* ---------------------------------------------------------------- effects
\* Only the rich variant has effects, and only a mounted component runs them.
HasEffects == variant = "rich" /\ mounted

\* An effect is due when it has never run or one of its deps changed.
RootEffectDue == IF effectDeps = <<>> THEN TRUE ELSE effectDeps[1] # projectRoot

ResizeEffectDue == IF effectDeps = <<>> THEN TRUE ELSE effectDeps[2] # isResizing

MountEffectDue == effectDeps = <<>>

EffectsDue == HasEffects /\ (RootEffectDue \/ ResizeEffectDue \/ MountEffectDue)

\* Mutant: the effect's closure keeps the root of the first render.
RefreshFileListRequestInitialRoot ==
    Request("list_files", InitialRoot, "refreshFileList")

\* refreshFileList, up to its await: list_files for the root of this render.
RefreshFileListRequest == Request("list_files", projectRoot, "refreshFileList")

\* Mutant: the effect refreshes the file list and loads nothing.
UseEffectProjectRootListOnly(bag) == Issue(bag, RefreshFileListRequest)

\* useEffect(..., [projectRoot]): refreshFileList(), then load_buffer with
\* .then(setCode).catch(log).
UseEffectProjectRoot(bag) ==
    Issue(Issue(bag, RefreshFileListRequest), Request("load_buffer", "", "effectLoad"))

\* Mutant: the cleanup removes nothing.
RemoveListenersLeak(ls) == ls

\* The cleanup of useEffect(..., [isResizing]): removes the pair that run installed.
RemoveListeners(ls) == IF ls = <<>> THEN ls ELSE SubSeq(ls, 1, Len(ls) - 1)

\* The body of useEffect(..., [isResizing]): installs a pair whose closures
\* hold this render's isResizing, whatever its value.
AddListeners(ls, resizing) == Append(ls, resizing)

\* Mutant: a re-run of the effect installs without the cleanup before it.
UseEffectIsResizingNoCleanup(ls) == AddListeners(ls, isResizing)

UseEffectIsResizing(ls) ==
    AddListeners(IF effectDeps = <<>> THEN ls ELSE RemoveListeners(ls), isResizing)

\* useEffect(..., []): returns early unless both refs are set; the container
\* ref is set by the first commit.
UseEffectMount == editorRef # "null"

\* Mutant: every commit runs the [projectRoot] effect, as without its deps.
FlushedPendingNoDeps ==
    IF HasEffects THEN UseEffectProjectRoot(pending) ELSE pending

FlushedPending ==
    IF HasEffects /\ RootEffectDue THEN UseEffectProjectRoot(pending) ELSE pending

FlushedListeners ==
    IF HasEffects /\ ResizeEffectDue THEN UseEffectIsResizing(listeners) ELSE listeners

FlushedObserver ==
    IF HasEffects /\ MountEffectDue THEN UseEffectMount ELSE observerInstalled

FlushedDeps == IF HasEffects THEN <<projectRoot, isResizing>> ELSE effectDeps

Fits(bag) == BagCardinality(bag) <= MaxPending

\* A commit: the effects still due from the commit before run first; the
\* effects of this one are left due. reqs: the requests in flight after it.
Render(reqs) ==
    /\ Fits(reqs)
    /\ effectDeps' = FlushedDeps
    /\ listeners' = FlushedListeners
    /\ observerInstalled' = FlushedObserver
    /\ pending' = reqs
    /\ issued' = FlushedPending (-) pending

NoRender(reqs) ==
    /\ Fits(reqs)
    /\ UNCHANGED <<effectDeps, listeners, observerInstalled>>
    /\ pending' = reqs
    /\ issued' = reqs (-) pending

\* The passive effects of the last commit run.
FlushEffects ==
    /\ EffectsDue
    /\ Render(FlushedPending)
    /\ out' = Quiet
    /\ UNCHANGED <<variant, mounted, code, projectRoot, fileList, isResizing,
                   editorRef, sidebarWidth, observedWidth, windowWidth,
                   hostBuffer, dragging,
                   measured>>

\* ----------------------------------------------------------------- widget
\* editorRef.current!.layout(): a TypeError through an unset handle.
UnguardedLayout(ref) ==
    IF ref # "null" THEN [layouts |-> 1, thrown |-> FALSE]
    ELSE [layouts |-> 0, thrown |-> TRUE]

\* Mutant: the handlers call layout without the presence check.
LayoutWithoutCheck(ref) == UnguardedLayout(ref)

\* What the widget has measured after a layout attempt `lay` made while the
\* sidebar was `side` wide: layout() measures the container as it is now.
Measure(lay, side, before) ==
    IF lay.layouts > 0 THEN <<windowWidth, side>> ELSE before

\* if (editorRef.current) editorRef.current.layout()
GuardedLayout(ref) ==
    IF ref # "null" THEN [layouts |-> 1, thrown |-> FALSE]
    ELSE [layouts |-> 0, thrown |-> FALSE]

\* <Editor onMount>: the widget has mounted; the handle is stored and laid out.
EditorOnMount ==
    /\ variant = "rich"
    /\ mounted
    /\ editorRef = "null"
    /\ editorRef' = "editor"
    /\ out' = [Quiet EXCEPT !.layouts = 1]
    /\ measured' = Measure(out', sidebarWidth, measured)
    /\ issued' = EmptyBag
    /\ UNCHANGED <<variant, mounted, code, projectRoot, fileList, isResizing,
                   sidebarWidth, listeners, effectDeps, observerInstalled,
                   observedWidth, windowWidth, pending, hostBuffer, dragging>>

\* ----------------------------------------------------------------- buffer
\* value || ""
OrEmpty(v) == IF v = Undefined \/ v = "" THEN "" ELSE v

\* Mutant: setCode(value), an absent value stored as it is.
HandleEditorChangeAsIs(v) == v

\* handleEditorChange: setCode(value || "")
HandleEditorChange(v) == OrEmpty(v)

\* The widget fires onChange; it exists once it has mounted.
EditorChange(v) ==
    /\ mounted
    /\ variant = "rich" => editorRef # "null"
    /\ code' = HandleEditorChange(v)
    /\ IF code' # code THEN Render(FlushedPending) ELSE NoRender(pending)
    /\ out' = Quiet
    /\ UNCHANGED <<variant, mounted, projectRoot, fileList, isResizing, editorRef,
                   sidebarWidth, observedWidth, windowWidth, hostBuffer, dragging,
                   measured>>

\* handleSave, up to its await: save_buffer with the text of this render.
HandleSaveRequest == Request("save_buffer", code, "handleSave")

\* The Save button.
SaveClick ==
    /\ mounted
    /\ NoRender(Issue(pending, HandleSaveRequest))
    /\ out' = Quiet
    /\ UNCHANGED <<variant, mounted, code, projectRoot, fileList, isResizing,
                   editorRef, sidebarWidth, observedWidth, windowWidth,
                   hostBuffer, dragging,
                   measured>>

\* handleLoad, up to its await.
HandleLoadRequest == Request("load_buffer", "", "handleLoad")

\* The Load button (rich variant only).
LoadClick ==
    /\ variant = "rich"
    /\ mounted
    /\ NoRender(Issue(pending, HandleLoadRequest))
    /\ out' = Quiet
    /\ UNCHANGED <<variant, mounted, code, projectRoot, fileList, isResizing,
                   editorRef, sidebarWidth, observedWidth, windowWidth,
                   hostBuffer, dragging,
                   measured>>

\* The project root input: onChange={(e) => setProjectRoot(e.target.value)}.
SetProjectRoot(r) ==
    /\ variant = "rich"
    /\ mounted
    /\ r # projectRoot
    /\ projectRoot' = r
    /\ Render(FlushedPending)
    /\ out' = Quiet
    /\ UNCHANGED <<variant, mounted, code, fileList, isResizing, editorRef,
                   sidebarWidth, observedWidth, windowWidth, hostBuffer, dragging,
                   measured>>

\* ------------------------------------------------------------------ panel
\* The drag handle: onMouseDown={() => setIsResizing(true)}.
HandleMouseDown ==
    /\ variant = "rich"
    /\ mounted
    /\ ~dragging
    /\ dragging' = TRUE
    /\ isResizing' = TRUE
    /\ IF isResizing THEN NoRender(pending) ELSE Render(FlushedPending)
    /\ out' = Quiet
    /\ UNCHANGED <<variant, mounted, code, projectRoot, fileList, editorRef,
                   sidebarWidth, observedWidth, windowWidth, hostBuffer,
                   measured>>

\* Mutant: the move handler applies clientX without the lower bound.
HandleMouseMoveUnclamped(captured, x, acc) ==
    IF ~captured \/ ~mounted THEN acc
    ELSE LET lay == GuardedLayout(editorRef)
         IN  [width |-> x,
              layouts |-> acc.layouts + lay.layouts,
              thrown |-> acc.thrown \/ lay.thrown,
              measured |-> Measure(lay, x, acc.measured)]

\* Mutant: the move handler applies the width and never calls layout.
HandleMouseMoveNoLayout(captured, x, acc) ==
    IF ~captured \/ ~mounted THEN acc
    ELSE [acc EXCEPT !.width = Max(MinWidth, x)]

\* handleMouseMove of a pair whose closure holds `captured`, on a move to
\* clientX x. acc: the width and the layout calls so far in this dispatch.
HandleMouseMove(captured, x, acc) ==
    IF ~captured \/ ~mounted THEN acc
    ELSE LET newWidth == Max(MinWidth, x)
             lay == GuardedLayout(editorRef)
         IN  [width |-> newWidth,
              layouts |-> acc.layouts + lay.layouts,
              thrown |-> acc.thrown \/ lay.thrown,
              measured |-> Measure(lay, newWidth, acc.measured)]

\* The window dispatches a mousemove to every installed listener, in order.
RECURSIVE DispatchMouseMove(_, _, _)
DispatchMouseMove(ls, x, acc) ==
    IF ls = <<>> THEN acc
    ELSE DispatchMouseMove(Tail(ls), x, HandleMouseMove(Head(ls), x, acc))

MouseMove(x) ==
    /\ variant = "rich"
    /\ LET r == DispatchMouseMove(listeners, x,
                    [width |-> sidebarWidth, layouts |-> 0, thrown |-> FALSE,
                     measured |-> measured])
       IN  /\ sidebarWidth' = r.width
           /\ measured' = r.measured
           /\ out' = [Quiet EXCEPT !.layouts = r.layouts, !.thrown = r.thrown]
    /\ issued' = EmptyBag
    /\ UNCHANGED <<variant, mounted, code, projectRoot, fileList, isResizing,
                   editorRef, listeners, effectDeps, observerInstalled,
                   observedWidth, windowWidth, pending, hostBuffer, dragging>>

\* handleMouseUp: setIsResizing(false), then a layout call if the handle is set.
HandleMouseUp(acc) ==
    LET lay == GuardedLayout(editorRef)
    IN  [resizing |-> FALSE,
         layouts |-> acc.layouts + lay.layouts,
         thrown |-> acc.thrown \/ lay.thrown,
         measured |-> Measure(lay, sidebarWidth, acc.measured)]

RECURSIVE DispatchMouseUp(_, _)
DispatchMouseUp(ls, acc) ==
    IF ls = <<>> THEN acc ELSE DispatchMouseUp(Tail(ls), HandleMouseUp(acc))

\* A pointer-up anywhere in the window.
MouseUp ==
    /\ variant = "rich"
    /\ dragging' = FALSE
    /\ LET r == DispatchMouseUp(listeners,
                    [resizing |-> isResizing, layouts |-> 0, thrown |-> FALSE,
                     measured |-> measured])
       IN  /\ isResizing' = IF mounted THEN r.resizing ELSE isResizing
           /\ measured' = r.measured
           /\ out' = [Quiet EXCEPT !.layouts = r.layouts, !.thrown = r.thrown]
    /\ IF isResizing' # isResizing THEN Render(FlushedPending) ELSE NoRender(pending)
    /\ UNCHANGED <<variant, mounted, code, projectRoot, fileList, editorRef,
                   sidebarWidth, observedWidth, windowWidth, hostBuffer>>

\* The window is resized: the editor container's box changes with it.
WindowResize(w) ==
    /\ variant = "rich"
    /\ w # windowWidth
    /\ windowWidth' = w
    /\ issued' = EmptyBag
    /\ out' = Quiet
    /\ UNCHANGED <<variant, mounted, code, projectRoot, fileList, isResizing,
                   editorRef, sidebarWidth, listeners, effectDeps,
                   observerInstalled, observedWidth, pending, hostBuffer, dragging,
                   measured>>

\* new ResizeObserver(() => { editorRef.current!.layout(); })
ObserverCallback == UnguardedLayout(editorRef)

\* The observer reports a container box it has not reported yet.
ObserverDeliver ==
    /\ observerInstalled
    /\ observedWidth # <<ContainerWidth(windowWidth, sidebarWidth)>>
    /\ observedWidth' = <<ContainerWidth(windowWidth, sidebarWidth)>>
    /\ out' = [Quiet EXCEPT !.layouts = ObserverCallback.layouts,
                            !.thrown = ObserverCallback.thrown]
    /\ measured' = Measure(ObserverCallback, sidebarWidth, measured)
    /\ issued' = EmptyBag
    /\ UNCHANGED <<variant, mounted, code, projectRoot, fileList, isResizing,
                   editorRef, sidebarWidth, listeners, effectDeps,
                   observerInstalled, windowWidth, pending, hostBuffer, dragging>>

\* The component unmounts: the effects still due run first, then every
\* effect's cleanup.
Unmount ==
    /\ mounted
    /\ mounted' = FALSE
    /\ Fits(FlushedPending)
    /\ pending' = FlushedPending
    /\ issued' = FlushedPending (-) pending
    /\ effectDeps' = FlushedDeps
    /\ listeners' = IF HasEffects THEN RemoveListeners(FlushedListeners) ELSE listeners
    /\ observerInstalled' = FALSE
    /\ out' = Quiet
    /\ UNCHANGED <<variant, code, projectRoot, fileList, isResizing, editorRef,
                   sidebarWidth, observedWidth, windowWidth, hostBuffer, dragging,
                   measured>>

\* --------------------------------------------------------------- explorer
\* String.prototype.split: the segments between the separators, in order;
\* cur is the segment being read.
RECURSIVE SplitFrom(_, _, _, _)
SplitFrom(rest, sep, cur, segs) ==
    IF rest = <<>> THEN Append(segs, cur)
    ELSE IF Head(rest) = sep
         THEN SplitFrom(Tail(rest), sep, <<>>, Append(segs, cur))
         ELSE SplitFrom(Tail(rest), sep, Append(cur, Head(rest)), segs)

Split(str, sep) == SplitFrom(str, sep, <<>>, <<>>)

\* Array.prototype.pop: the last element.
Pop(arr) == arr[Len(arr)]

\* Mutant: the first segment instead of the last.
LeafNameFirst(file) == Head(Split(file, "/"))

\* {file.split("/").pop()}
LeafName(file) == Pop(Split(file, "/"))

\* fileList.map(...): the entries on display, one <li> per path.
FileEntries == [i \in 1..Len(fileList) |-> LeafName(fileList[i])]

\* ------------------------------------------------------- host responses
\* A setState of an unmounted component changes nothing.
SetState(old, new) == IF mounted THEN new ELSE old

\* Mutant: the answer is appended to the list on display.
RefreshFileListMerges(req, files) == fileList \o files

\* refreshFileList after its await resolved: setFileList(files).
RefreshFileListResolved(req, files) == files

\* Mutant: the catch resets the list to empty.
RefreshFileListRejectedEmpties(list) ==
    [fileList |-> <<>>, log |-> "Failed to list files", unhandled |-> ""]

\* refreshFileList's catch: console.error, the list untouched.
RefreshFileListRejected(list) ==
    [fileList |-> list, log |-> "Failed to list files", unhandled |-> ""]

ListFilesResolve(req, files) ==
    /\ req \in Outstanding
    /\ req.cmd = "list_files"
    /\ fileList' = SetState(fileList, RefreshFileListResolved(req, files))
    /\ IF mounted THEN Render(Settle(FlushedPending, req))
       ELSE NoRender(Settle(pending, req))
    /\ out' = Quiet
    /\ UNCHANGED <<variant, mounted, code, projectRoot, isResizing, editorRef,
                   sidebarWidth, observedWidth, windowWidth, hostBuffer, dragging,
                   measured>>

ListFilesReject(req) ==
    /\ req \in Outstanding
    /\ req.cmd = "list_files"
    /\ LET r == RefreshFileListRejected(fileList)
       IN  /\ fileList' = r.fileList
           /\ out' = [Quiet EXCEPT !.log = r.log, !.unhandled = r.unhandled]
    /\ NoRender(Settle(pending, req))
    /\ UNCHANGED <<variant, mounted, code, projectRoot, isResizing, editorRef,
                   sidebarWidth, observedWidth, windowWidth, hostBuffer, dragging,
                   measured>>

\* Mutant: the effect's load keeps the placeholder instead of the contents.
LoadResolvedKeepsPlaceholder(k, contents) ==
    IF k = "handleLoad" THEN contents ELSE Placeholder

\* .then(setCode) of the effect, and handleLoad after its await: setCode(contents).
LoadResolved(k, contents) == contents

\* Mutant: the catch clears the text.
EffectLoadRejectedClears(text) ==
    [code |-> "", log |-> "No existing buffer found", unhandled |-> ""]

\* .catch(() => console.log("No existing buffer found")) of the effect.
EffectLoadRejected(text) ==
    [code |-> text, log |-> "No existing buffer found", unhandled |-> ""]

\* handleLoad has no catch: the promise the click handler returns rejects.
HandleLoadRejected(text) == [code |-> text, log |-> "", unhandled |-> "handleLoad"]

LoadRejected(k, text) ==
    IF k = "effectLoad" THEN EffectLoadRejected(text) ELSE HandleLoadRejected(text)

\* The host has a persisted buffer to answer load_buffer with.
HostHasBuffer == hostBuffer # NoBuffer

\* The host answers load_buffer with its persisted buffer, when it has one.
LoadBufferResolve(req) ==
    /\ req \in Outstanding
    /\ req.cmd = "load_buffer"
    /\ HostHasBuffer
    /\ code' = SetState(code, LoadResolved(req.k, hostBuffer))
    /\ IF code' # code THEN Render(Settle(FlushedPending, req))
       ELSE NoRender(Settle(pending, req))
    /\ out' = Quiet
    /\ UNCHANGED <<variant, mounted, projectRoot, fileList, isResizing, editorRef,
                   sidebarWidth, observedWidth, windowWidth, hostBuffer, dragging,
                   measured>>

\* The host rejects load_buffer: no buffer, or any other failure.
LoadBufferReject(req) ==
    /\ req \in Outstanding
    /\ req.cmd = "load_buffer"
    /\ LET r == LoadRejected(req.k, code)
       IN  /\ code' = SetState(code, r.code)
           /\ out' = [Quiet EXCEPT !.log = r.log, !.unhandled = r.unhandled]
    /\ IF code' # code THEN Render(Settle(FlushedPending, req))
       ELSE NoRender(Settle(pending, req))
    /\ UNCHANGED <<variant, mounted, projectRoot, fileList, isResizing, editorRef,
                   sidebarWidth, observedWidth, windowWidth, hostBuffer, dragging,
                   measured>>

\* handleSave after its await resolved: nothing more in the rich variant.
HandleSaveResolved(text) == [code |-> text, log |-> "", unhandled |-> ""]

\* The simple variant logs the success.
HandleSaveResolvedSimple(text) ==
    [code |-> text, log |-> "Saved successfully", unhandled |-> ""]

\* The rich variant's handleSave has no catch.
HandleSaveRejected(text) == [code |-> text, log |-> "", unhandled |-> "handleSave"]

\* Mutant: the catch reverts the text to the placeholder.
HandleSaveRejectedReverts(text) ==
    [code |-> Placeholder, log |-> "Failed to save", unhandled |-> ""]

\* The simple variant's handleSave catches and logs.
HandleSaveRejectedSimple(text) ==
    [code |-> text, log |-> "Failed to save", unhandled |-> ""]

SaveSettled(ok, text) ==
    IF variant = "rich"
    THEN (IF ok THEN HandleSaveResolved(text) ELSE HandleSaveRejected(text))
    ELSE (IF ok THEN HandleSaveResolvedSimple(text) ELSE HandleSaveRejectedSimple(text))

\* What the host holds after save_buffer: the contents, verbatim.
HostSaveBuffer(contents) == contents

\* The host persists the contents and answers.
SaveBufferResolve(req) ==
    /\ req \in Outstanding
    /\ req.cmd = "save_buffer"
    /\ hostBuffer' = HostSaveBuffer(req.arg)
    /\ LET r == SaveSettled(TRUE, code)
       IN  /\ code' = SetState(code, r.code)
           /\ out' = [Quiet EXCEPT !.log = r.log, !.unhandled = r.unhandled]
    /\ IF code' # code THEN Render(Settle(FlushedPending, req))
       ELSE NoRender(Settle(pending, req))
    /\ UNCHANGED <<variant, mounted, projectRoot, fileList, isResizing, editorRef,
                   sidebarWidth, observedWidth, windowWidth, dragging,
                   measured>>

\* The host rejects save_buffer and persists nothing.
SaveBufferReject(req) ==
    /\ req \in Outstanding
    /\ req.cmd = "save_buffer"
    /\ LET r == SaveSettled(FALSE, code)
       IN  /\ code' = SetState(code, r.code)
           /\ out' = [Quiet EXCEPT !.log = r.log, !.unhandled = r.unhandled]
    /\ IF code' # code THEN Render(Settle(FlushedPending, req))
       ELSE NoRender(Settle(pending, req))
    /\ UNCHANGED <<variant, mounted, projectRoot, fileList, isResizing, editorRef,
                   sidebarWidth, observedWidth, windowWidth, hostBuffer, dragging,
                   measured>>

\* ------------------------------------------------------------------- next
Requests ==
    {Request("list_files", r, "refreshFileList") : r \in Roots}
    \cup {Request("load_buffer", "", k) : k \in {"effectLoad", "handleLoad"}}
    \cup {Request("save_buffer", t, "handleSave") :
              t \in {Placeholder} \cup {OrEmpty(v) : v \in ChangeValues}
                    \cup (HostBuffers \ {NoBuffer})}

Next ==
    \/ FlushEffects
    \/ EditorOnMount
    \/ \E v \in ChangeValues : EditorChange(v)
    \/ SaveClick
    \/ LoadClick
    \/ \E r \in Roots : SetProjectRoot(r)
    \/ HandleMouseDown
    \/ \E x \in Xs : MouseMove(x)
    \/ MouseUp
    \/ \E w \in WindowWidths : WindowResize(w)
    \/ ObserverDeliver
    \/ Unmount
    \/ \E req \in Requests, files \in Listings : ListFilesResolve(req, files)
    \/ \E req \in Requests : ListFilesReject(req)
    \/ \E req \in Requests : LoadBufferResolve(req)
    \/ \E req \in Requests : LoadBufferReject(req)
    \/ \E req \in Requests : SaveBufferResolve(req)
    \/ \E req \in Requests : SaveBufferReject(req)

Spec == Init /\ [][Next]_vars

\* The panel's side of the shell: pointer, resize, widget and lifecycle
\* events. Whatever else re-renders acts on the panel as FlushEffects does.
NextPanel ==
    \/ FlushEffects
    \/ EditorOnMount
    \/ HandleMouseDown
    \/ \E x \in Xs : MouseMove(x)
    \/ MouseUp
    \/ \E w \in WindowWidths : WindowResize(w)
    \/ ObserverDeliver
    \/ Unmount

SpecPanel == Init /\ [][NextPanel]_vars

\* The host's side of the shell: buffer, project root, file list and the
\* requests in flight. A re-render that a pointer event causes acts on these
\* as FlushEffects does.
NextHost ==
    \/ FlushEffects
    \/ EditorOnMount
    \/ \E v \in ChangeValues : EditorChange(v)
    \/ SaveClick
    \/ LoadClick
    \/ \E r \in Roots : SetProjectRoot(r)
    \/ Unmount
    \/ \E req \in Requests, files \in Listings : ListFilesResolve(req, files)
    \/ \E req \in Requests : ListFilesReject(req)
    \/ \E req \in Requests : LoadBufferResolve(req)
    \/ \E req \in Requests : LoadBufferReject(req)
    \/ \E req \in Requests : SaveBufferResolve(req)
    \/ \E req \in Requests : SaveBufferReject(req)

SpecHost == Init /\ [][NextHost]_vars

\* An event of the pointer or of the editor container's box.
PointerOrResize ==
    \/ HandleMouseDown
    \/ \E x \in Xs : MouseMove(x)
    \/ MouseUp
    \/ \E w \in WindowWidths : WindowResize(w)
    \/ ObserverDeliver

\* An answer of the host to a request in flight.
HostResponse ==
    \/ \E req \in Requests, files \in Listings : ListFilesResolve(req, files)
    \/ \E req \in Requests : ListFilesReject(req)
    \/ \E req \in Requests : LoadBufferResolve(req)
    \/ \E req \in Requests : LoadBufferReject(req)
    \/ \E req \in Requests : SaveBufferResolve(req)
    \/ \E req \in Requests : SaveBufferReject(req)

\* The panel's events interleaved with saves and the host's answers to the
\* requests of the mount and of the Save button.
NextDrag ==
    \/ FlushEffects
    \/ EditorOnMount
    \/ PointerOrResize
    \/ SaveClick
    \/ HostResponse

SpecDrag == Init /\ [][NextDrag]_vars

\* ================================================================= claims
\* C1: a successful list_files response is applied to the file list only if
\* the root it was issued for equals the current project root; a response
\* for a superseded root is discarded.
C1_StaleListingDiscarded ==
    [][\A req \in Requests, files \in Listings :
          (ListFilesResolve(req, files) /\ req.arg # projectRoot)
              => fileList' = fileList]_vars

\* C2: between a pointer-up and the next pointer-down on the handle no step
\* changes the sidebar width, wherever the flush of the effects falls.
C2_NoWidthChangeAfterPointerUp ==
    [][(~dragging /\ ~dragging') => sidebarWidth' = sidebarWidth]_vars

\* C3: every pointer-move to x between a pointer-down on the handle and the
\* next pointer-up leaves the sidebar max(150, x) wide.
C3_MoveWhileResizingClamps ==
    [][\A x \in Xs :
          (mounted /\ dragging /\ MouseMove(x))
              => sidebarWidth' = Max(MinWidth, x)]_vars

C5_ContainerResizeObserved ==
    [][(mounted /\ editorRef # "null" /\ effectDeps # <<>>
            /\ windowWidth' # windowWidth)
          => observerInstalled']_vars

\* C6: no rejection of a host call escapes the shell as an unhandled error.
C6_NoUnhandledRejection == out.unhandled = ""

\* C7: a rejected load_buffer leaves the buffer text as it was; with no
\* persisted buffer and no edit (the widget has not mounted), the text is
\* the placeholder.
C7_LoadFailureKeepsText ==
    /\ [][\A req \in Requests : LoadBufferReject(req) => code' = code]_vars
    /\ []((variant = "rich" /\ editorRef = "null" /\ hostBuffer = NoBuffer)
            => code = Placeholder)

\* C7's case: the mount-time load_buffer was rejected, nothing is persisted,
\* and the placeholder is on display.
C7_Witness ==
    /\ out.log = "No existing buffer found"
    /\ hostBuffer = NoBuffer
    /\ mounted
    /\ code = Placeholder

\* C8: a rejected list_files leaves the displayed file list as it was.
C8_ListFailureKeepsList ==
    [][\A req \in Requests : ListFilesReject(req) => fileList' = fileList]_vars

\* C8's case: a listing failed while a non-empty list was on display, which
\* is still on display.
C8_Witness ==
    out.log = "Failed to list files" /\ mounted /\ fileList = <<PathA, PathB>>

\* C9: a save_buffer response, success or failure, leaves the buffer text as
\* it was and issues no request; a save trigger sends the text in memory.
C9_SaveResponseKeepsText ==
    /\ [][\A req \in Requests :
            (SaveBufferResolve(req) \/ SaveBufferReject(req))
                => (code' = code /\ pending' = Settle(pending, req))]_vars
    /\ [][SaveClick => pending' = Issue(pending, Request("save_buffer", code, "handleSave"))]_vars

\* C9's case: a save of an edited text failed, the host does not hold that
\* text, and the edited text is still in memory.
C9_Witness ==
    /\ (out.log = "Failed to save" \/ out.unhandled = "handleSave")
    /\ mounted
    /\ code = "fn a"
    /\ hostBuffer # "fn a"
    /\ pending = EmptyBag

\* C10: while the handle is unset no step calls layout and no step ever
\* raises an error through the handle; once set, the handle keeps its value.
C10_NoLayoutThroughUnsetHandle ==
    /\ [](editorRef = "null" => out.layouts = 0)
    /\ [](~out.thrown)
    /\ [][editorRef # "null" => editorRef' = editorRef]_vars

\* C10's case: the handle is unset, and a pointer-up has been handled after
\* a render with isResizing true had its listeners installed.
C10_Witness ==
    /\ editorRef = "null"
    /\ mounted
    /\ ~isResizing
    /\ effectDeps # <<>>
    /\ listeners = <<TRUE>>

\* C11: a load followed at once by a save is a no-op on the host. A
\* successful load leaves the host's content c in memory, the save request
\* that a trigger then issues carries exactly c, and the host persists the
\* contents of a save verbatim, so it holds c again after the save.
C11_LoadThenSaveRoundTrip ==
    /\ [][\A req \in Requests :
            (LoadBufferResolve(req) /\ mounted)
                => /\ code' = hostBuffer
                   /\ HandleSaveRequest' = Request("save_buffer", hostBuffer, "handleSave")]_vars
    /\ [][SaveClick => issued' = SetToBag({Request("save_buffer", code, "handleSave")})]_vars
    /\ [][\A req \in Requests : SaveBufferResolve(req) => hostBuffer' = req.arg]_vars

\* C11's case: the host's buffer was loaded and a save of it has just been
\* triggered, with the loaded text still in memory.
C11_Witness ==
    /\ mounted
    /\ code = "fn h"
    /\ hostBuffer = "fn h"
    /\ issued = SetToBag({Request("save_buffer", "fn h", "handleSave")})

\* The part of a path after its final "/", the whole path if it has none.
AfterLastSlash(path) ==
    LET slashes == {i \in 1..Len(path) : path[i] = "/"}
    IN  IF slashes = {} THEN path
        ELSE SubSeq(path, (CHOOSE i \in slashes : \A j \in slashes : j <= i) + 1,
                    Len(path))

\* C12: the entries on display are the leaf names of the paths of the file
\* list, one per path and in the list's order; the listing
\* <</p/a, /p/s/b>> is displayed as <<a, b>>.
C12_EntriesAreLeafNames ==
    /\ Len(FileEntries) = Len(fileList)
    /\ \A i \in 1..Len(fileList) : FileEntries[i] = AfterLastSlash(fileList[i])
    /\ fileList = <<PathA, PathB>> => FileEntries = << <<"a">>, <<"b">> >>

\* C12's case: the host's listing of two nested paths is on display.
C12_Witness ==
    /\ mounted
    /\ fileList = <<PathA, PathB>>
    /\ FileEntries = << <<"a">>, <<"b">> >>

\* C13: at most one pair of window listeners of the shell is installed at
\* any time, and none once the component has unmounted: every run of the
\* effect removes the pair of the run before it, and the unmount removes the
\* last one.
C13_AtMostOnePairInstalled ==
    /\ Len(listeners) <= 1
    /\ ~mounted => listeners = <<>>

\* C13's case: a drag has moved the sidebar and ended, so the effect has run
\* three times, and one pair is installed.
C13_Witness ==
    /\ mounted
    /\ sidebarWidth = 300
    /\ ~isResizing
    /\ listeners = <<FALSE>>

\* C14: while the handle is set, a pointer-move that changes the sidebar
\* width calls layout in the same step, after the new width is applied; the
\* pointer-up handler, once installed, leaves isResizing false and calls
\* layout once; so in every state with the handle set the sidebar width of
\* the widget's last layout is the current sidebar width.
C14_LayoutFollowsWidth ==
    /\ [][\A x \in Xs :
            (MouseMove(x) /\ editorRef # "null" /\ sidebarWidth' # sidebarWidth)
                => (out'.layouts >= 1 /\ measured' = <<windowWidth, sidebarWidth'>>)]_vars
    /\ [][(MouseUp /\ editorRef # "null" /\ listeners # <<>>)
            => (isResizing' = FALSE /\ out'.layouts = 1)]_vars
    /\ [](editorRef # "null"
            => IF measured = <<>> THEN FALSE ELSE measured[2] = sidebarWidth)

\* C14's case: with the handle set, a drag has widened the sidebar and the
\* pointer has just come up; the widget has measured the new width.
C14_Witness ==
    /\ editorRef # "null"
    /\ mounted
    /\ sidebarWidth = 300
    /\ measured = <<windowWidth, 300>>
    /\ out.layouts = 1
    /\ ~isResizing
    /\ listeners = <<TRUE>>

\* C15: the file list changes only by a resolved list_files request, which
\* replaces it wholesale with the sequence the host returned; and every
\* list_files request carries the project root of the moment it is issued.
\* So the list is the initial empty one or the host's answer for a root that
\* was the project root at request time.
C15_FileListFromHost ==
    /\ [][fileList' # fileList
            => \E req \in Outstanding, files \in Listings :
                  /\ req.cmd = "list_files"
                  /\ ListFilesResolve(req, files)
                  /\ fileList' = files]_vars
    /\ [][\A req \in BagToSet(issued') :
            req.cmd = "list_files" => req.arg = projectRoot]_vars

\* C15's case: the root was changed and a host listing is on display, with
\* no request in flight.
C15_Witness ==
    /\ mounted
    /\ projectRoot = "/proj"
    /\ fileList = <<PathC, PathD>>
    /\ pending = EmptyBag

\* C16: the sidebar is at least 150 px wide in every reachable state,
\* wherever the pointer moves, left of the window's edge included.
C16_WidthAtLeastMin == sidebarWidth >= 150

\* C16's case: a drag to the left of the minimum has been clamped.
C16_Witness ==
    /\ mounted
    /\ dragging
    /\ listeners = <<TRUE>>
    /\ sidebarWidth = 150

\* C20: an event of the pointer or of the container's box leaves the buffer
\* text, the project root and the file list as they were and issues no host
\* request: the only requests of such a step are those of an effect that
\* was already due when the event came. An answer of the host leaves the
\* sidebar width and isResizing as they were. Stated as: no step that does
\* otherwise is such an event, or such an answer.
C20_PanelAndHostFrames ==
    /\ [][(\/ code' # code
           \/ projectRoot' # projectRoot
           \/ fileList' # fileList
           \/ (~(HasEffects /\ RootEffectDue) /\ issued' # EmptyBag)
           \/ (pending' # pending /\ pending' # UseEffectProjectRoot(pending)))
            => ~PointerOrResize]_vars
    /\ [][(sidebarWidth' # sidebarWidth \/ isResizing' # isResizing)
            => ~HostResponse]_vars

\* C20's case: in the middle of a drag that has moved the sidebar, with a
\* listing and the loaded buffer on display, the host has just rejected a
\* save.
C20_Witness ==
    /\ mounted
    /\ isResizing
    /\ sidebarWidth = 300
    /\ code = "fn h"
    /\ fileList = <<PathA, PathB>>
    /\ out.unhandled = "handleSave"

\* The list_files requests among those a step issued.
ListFilesIssued(bag) == {req \in BagToSet(bag) : req.cmd = "list_files"}

\* A list_files request is owed: for the mount, or for a change of the root.
ListingOwed == HasEffects /\ RootEffectDue

\* C17: one list_files request is owed at startup and one more with every
\* change of the project root. A step issues a list_files request only when
\* one is owed, and then exactly one, carrying the root it is owed for; an
\* owed request stays owed for the same root until it is issued; and nothing
\* is owed after it unless the root changed in the same step.
C17_OneListingPerRoot ==
    /\ []((HasEffects /\ effectDeps = <<>>)
            => (ListingOwed /\ ListFilesIssued(pending) = {}))
    /\ [][projectRoot' # projectRoot => ListingOwed']_vars
    /\ [][\A req \in ListFilesIssued(issued') :
            /\ ListingOwed
            /\ req.arg = projectRoot
            /\ CopiesIn(req, issued') = 1]_vars
    /\ [][ListingOwed
            => \/ /\ ListFilesIssued(issued') = {}
                  /\ ListingOwed'
                  /\ projectRoot' = projectRoot
               \/ /\ ListFilesIssued(issued') # {}
                  /\ ListingOwed' => projectRoot' # projectRoot]_vars

\* C17's case: the root was changed back and forth, and the request for the
\* last change has just been issued.
C17_Witness ==
    /\ mounted
    /\ projectRoot = InitialRoot
    /\ effectDeps # <<>>
    /\ ListFilesIssued(issued) = {Request("list_files", InitialRoot, "refreshFileList")}
    /\ CopiesIn(Request("list_files", "/proj", "refreshFileList"), pending) = 1

\* C18: a change event with text t leaves exactly t in memory, the empty
\* text when the value is absent, and issues no host request of its own (its
\* re-render runs only the effects already due); a save trigger issues one
\* save_buffer request with the text in memory at that moment, and nothing
\* else.
C18_EditThenSave ==
    /\ [][\A v \in ChangeValues :
            EditorChange(v)
                => /\ code' = IF v = Undefined THEN "" ELSE v
                   /\ ~(HasEffects /\ RootEffectDue) => issued' = EmptyBag
                   /\ \A req \in BagToSet(issued') : req.k # "handleSave"]_vars
    /\ [][SaveClick
            => /\ issued' = SetToBag({Request("save_buffer", code, "handleSave")})
               /\ pending' = pending (+) issued'
               /\ code' = code]_vars

\* C18's case: an edit to "fn a" is in memory and its save has just been
\* triggered, while the host still holds something else.
C18_Witness ==
    /\ mounted
    /\ code = "fn a"
    /\ hostBuffer # "fn a"
    /\ issued = SetToBag({Request("save_buffer", "fn a", "handleSave")})

\* The load_buffer request of the [projectRoot] effect.
EffectLoad == Request("load_buffer", "", "effectLoad")

\* C19: a change of the project root leaves a run of the effect due, which
\* issues one load_buffer request together with its list_files request;
\* every load_buffer the host answers with its content, whoever issued it,
\* leaves exactly that content in memory, whatever the text was before and
\* whatever is still in flight. With several loads outstanding the text
\* after each answer is that answer's, so the last to arrive wins.
C19_LoadReplacesText ==
    /\ [][projectRoot' # projectRoot => (HasEffects' /\ RootEffectDue')]_vars
    /\ [][(ListFilesIssued(issued') # {} \/ CopiesIn(EffectLoad, issued') > 0)
            => (CopiesIn(EffectLoad, issued') = 1 /\ HasEffects /\ RootEffectDue)]_vars
    /\ [][\A req \in Requests :
            (LoadBufferResolve(req) /\ mounted)
                => (code' = hostBuffer /\ pending' (-) issued' = Settle(pending, req))]_vars

\* C19's case: an edit was in memory when its save was triggered; a load
\* answered since has replaced it with the host's content, while the save
\* and another load are still in flight.
C19_Witness ==
    /\ mounted
    /\ code = "fn h"
    /\ CopiesIn(Request("save_buffer", "fn a", "handleSave"), pending) = 1
    /\ \E k \in {"effectLoad", "handleLoad"} :
          CopiesIn(Request("load_buffer", "", k), pending) = 1

====
